---- MODULE Spec2Model ----
(***************************************************************************)
(* A model of the image converter / compressor: the ImageProcessor class   *)
(* (src/src/utils/ImageProcessor.js) and the App component that drives it  *)
(* (src/src/App.jsx).                                                      *)
(*                                                                         *)
(* Conventions                                                             *)
(*  - A quality is a percentage: 80 stands for 0.8, 95 for 0.95.           *)
(*  - An optional value is a sequence: <<>> is undefined, <<v>> is v.      *)
(*  - maxWidth / maxHeight = 0 stands for "not given": the code only ever  *)
(*    tests them for truthiness, so undefined and 0 behave alike.          *)
(*  - A file name is a sequence of tokens; "." and "/" are the characters  *)
(*    the extension pattern distinguishes, any other token is a non-empty  *)
(*    run of ordinary characters.                                          *)
(*  - Widths and heights inside calculateDimensions are exact rationals    *)
(*    <<num, den>>; for dimensions up to 17 the IEEE doubles of the        *)
(*    JavaScript code round to the same integers.  The placement on the    *)
(*    document page is computed in exact rationals as well, on an A4 page  *)
(*    of 210 x 297 mm.                                                     *)
(***************************************************************************)
EXTENDS Integers, Sequences, FiniteSets, TLC

VARIABLES
    fromType,            \* App state: useState('') , source format selector
    toType,              \* App state: target format selector
    selectedImages,      \* App state: sequence of image items
    isConverting,        \* App state
    conversionResults,   \* App state: the published results
    error,               \* App state: the error banner
    compressionSettings, \* App state
    nextId,              \* ids handed out by crypto.randomUUID so far
    batch,               \* the running handleConvertImages invocation
    batches,             \* handleConvertImages invocations started so far
    call,                \* the running convertImage invocation
    ret,                 \* how the convertImage promise settled
    encoderCalls,        \* canvas.toBlob / canvas.toDataURL calls of the invocation
    dimIn,               \* arguments of a calculateDimensions call
    dimOut,              \* its result
    placeIn,             \* the raster convertImageToPDF places on the page
    placeOut,            \* the arguments it hands to pdf.addImage
    alertShown,          \* ImageUploadZone: the last drop or selection raised an alert
    localSettings,       \* CompressionControls state: the settings its controls show
    debounceTimer,       \* CompressionControls: the 300 ms timer is pending
    previewProps,        \* ImageItemComponent props: enableCompression and quality
    previewTimer,        \* ImageItemComponent: the pending 500 ms timer, with its quality
    previewInflight,     \* qualities of the preview computations that are under way
    compressionPreview,  \* ImageItemComponent state
    isLoadingPreview     \* ImageItemComponent state

appVars  == <<fromType, toType, selectedImages, isConverting, conversionResults,
              error, compressionSettings, nextId, batch, batches>>
callVars == <<call, ret, encoderCalls>>
dimVars  == <<dimIn, dimOut>>
placeVars == <<placeIn, placeOut>>
uiVars   == <<alertShown, localSettings, debounceTimer>>
previewVars == <<previewProps, previewTimer, previewInflight, compressionPreview,
                 isLoadingPreview>>
vars     == <<fromType, toType, selectedImages, isConverting, conversionResults,
              error, compressionSettings, nextId, batch, batches, call, ret,
              encoderCalls,
              dimIn, dimOut, placeIn, placeOut,
              alertShown, localSettings, debounceTimer,
              previewProps, previewTimer, previewInflight, compressionPreview,
              isLoadingPreview>>

---------------------------------------------------------------------------
(* Bounds of the model *)

MaxDim == 6

MaxBlobSize == 2

MaxImages == 2

MaxIds == 2

MaxBatches == 1

MaxRaster == 10

---------------------------------------------------------------------------
(* Optional values *)

None == <<>>

Some(v) == <<v>>

Min(a, b) == IF a < b THEN a ELSE b

---------------------------------------------------------------------------
(* Rational arithmetic standing for the code's floating point *)

Rat(n, d) == <<n, d>>

RatGT(a, b) == a[1] * b[2] > b[1] * a[2]

RatMul(a, b) == <<a[1] * b[1], a[2] * b[2]>>

RatDiv(a, b) == <<a[1] * b[2], a[2] * b[1]>>

RatSub(a, b) == <<a[1] * b[2] - b[1] * a[2], a[2] * b[2]>>

RECURSIVE GCD(_, _)
GCD(a, b) == IF b = 0 THEN a ELSE GCD(b, a % b)

\* the same number in lowest terms (the denominator is positive)
RatNorm(a) ==
    LET g == GCD(IF a[1] < 0 THEN 0 - a[1] ELSE a[1], a[2])
    IN  <<a[1] \div g, a[2] \div g>>

\* Math.round of a non-negative rational: the nearest integer, halves go up.
MathRound(r) == (2 * r[1] + r[2]) \div (2 * r[2])

---------------------------------------------------------------------------
(* ImageProcessor.calculateDimensions *)

\* calculateDimensions without the early return of lines 335-337 and without
\* the truthiness tests of the bounds: a bound that is not given counts as 0
calculateDimensionsBoundsAlways(originalWidth, originalHeight, maxWidth, maxHeight, maintainAspectRatio) ==
    IF maintainAspectRatio
    THEN LET aspectRatio == Rat(originalWidth, originalHeight)
             w0 == Rat(originalWidth, 1)
             h0 == Rat(originalHeight, 1)
             widthPass == RatGT(w0, Rat(maxWidth, 1))
             w1 == IF widthPass THEN Rat(maxWidth, 1) ELSE w0
             h1 == IF widthPass THEN RatDiv(w1, aspectRatio) ELSE h0
             heightPass == RatGT(h1, Rat(maxHeight, 1))
             h2 == IF heightPass THEN Rat(maxHeight, 1) ELSE h1
             w2 == IF heightPass THEN RatMul(h2, aspectRatio) ELSE w1
         IN  [width |-> MathRound(w2), height |-> MathRound(h2)]
    ELSE [width  |-> Min(originalWidth, maxWidth),
          height |-> Min(originalHeight, maxHeight)]

\* calculateDimensions without the height pass of lines 347-350
calculateDimensionsWidthOnly(originalWidth, originalHeight, maxWidth, maxHeight, maintainAspectRatio) ==
    IF maxWidth = 0 /\ maxHeight = 0
    THEN [width |-> originalWidth, height |-> originalHeight]
    ELSE IF maintainAspectRatio
    THEN LET aspectRatio == Rat(originalWidth, originalHeight)
             w0 == Rat(originalWidth, 1)
             h0 == Rat(originalHeight, 1)
             widthPass == maxWidth # 0 /\ RatGT(w0, Rat(maxWidth, 1))
             w1 == IF widthPass THEN Rat(maxWidth, 1) ELSE w0
             h1 == IF widthPass THEN RatDiv(w1, aspectRatio) ELSE h0
         IN  [width |-> MathRound(w1), height |-> MathRound(h1)]
    ELSE [width  |-> IF maxWidth # 0 THEN Min(originalWidth, maxWidth) ELSE originalWidth,
          height |-> IF maxHeight # 0 THEN Min(originalHeight, maxHeight) ELSE originalHeight]

\* calculateDimensions with the height bound tested on the original height
calculateDimensionsOriginalHeight(originalWidth, originalHeight, maxWidth, maxHeight, maintainAspectRatio) ==
    IF maxWidth = 0 /\ maxHeight = 0
    THEN [width |-> originalWidth, height |-> originalHeight]
    ELSE IF maintainAspectRatio
    THEN LET aspectRatio == Rat(originalWidth, originalHeight)
             w0 == Rat(originalWidth, 1)
             h0 == Rat(originalHeight, 1)
             widthPass == maxWidth # 0 /\ RatGT(w0, Rat(maxWidth, 1))
             w1 == IF widthPass THEN Rat(maxWidth, 1) ELSE w0
             h1 == IF widthPass THEN RatDiv(w1, aspectRatio) ELSE h0
             heightPass == maxHeight # 0 /\ RatGT(h0, Rat(maxHeight, 1))
             h2 == IF heightPass THEN Rat(maxHeight, 1) ELSE h1
             w2 == IF heightPass THEN RatMul(h2, aspectRatio) ELSE w1
         IN  [width |-> MathRound(w2), height |-> MathRound(h2)]
    ELSE [width  |-> IF maxWidth # 0 THEN Min(originalWidth, maxWidth) ELSE originalWidth,
          height |-> IF maxHeight # 0 THEN Min(originalHeight, maxHeight) ELSE originalHeight]

calculateDimensions(originalWidth, originalHeight, maxWidth, maxHeight, maintainAspectRatio) ==
    IF maxWidth = 0 /\ maxHeight = 0
    THEN [width |-> originalWidth, height |-> originalHeight]
    ELSE IF maintainAspectRatio
    THEN LET aspectRatio == Rat(originalWidth, originalHeight)
             w0 == Rat(originalWidth, 1)
             h0 == Rat(originalHeight, 1)
             widthPass == maxWidth # 0 /\ RatGT(w0, Rat(maxWidth, 1))
             w1 == IF widthPass THEN Rat(maxWidth, 1) ELSE w0
             h1 == IF widthPass THEN RatDiv(w1, aspectRatio) ELSE h0
             heightPass == maxHeight # 0 /\ RatGT(h1, Rat(maxHeight, 1))
             h2 == IF heightPass THEN Rat(maxHeight, 1) ELSE h1
             w2 == IF heightPass THEN RatMul(h2, aspectRatio) ELSE w1
         IN  [width |-> MathRound(w2), height |-> MathRound(h2)]
    ELSE [width  |-> IF maxWidth # 0 THEN Min(originalWidth, maxWidth) ELSE originalWidth,
          height |-> IF maxHeight # 0 THEN Min(originalHeight, maxHeight) ELSE originalHeight]

---------------------------------------------------------------------------
(* Formats, files, settings *)

\* The format names convertImage can be handed; "gif" stands for any unknown one.
Formats == {"jpg", "jpeg", "png", "pdf", "gif"}

\* The tokens of a format name used as a file extension.
Ext(t) == <<".", t>>

\* Files the user can hand in: name, declared size, MIME type, intrinsic size.
Files ==
    { [name |-> <<"a", ".", "png">>, size |-> 1, type |-> "image/png",
       width |-> 3, height |-> 1],
      [name |-> <<"b">>, size |-> 0, type |-> "image/jpeg",
       width |-> 2, height |-> 2],
      [name |-> <<"c", ".", "d", ".", "jpg">>, size |-> 2, type |-> "image/jpeg",
       width |-> 1, height |-> 3],
      [name |-> <<"e">>, size |-> 1, type |-> "image/png",
       width |-> 2, height |-> 1] }

Qualities == {0, 5, 80, 150}

SettingsSet ==
    [quality : Qualities, maxWidth : {0, 1, 2}, maxHeight : {0, 2},
     maintainAspectRatio : BOOLEAN, enableCompression : BOOLEAN]

\* a || b for numbers: 0 is falsy
OrDefault(a, b) == IF a = 0 THEN b ELSE a

---------------------------------------------------------------------------
(* ImageProcessor: the table and the lookup of convertImage *)

supportedConversions ==
    << [from |-> "jpg",  to |-> "png",  clientSide |-> TRUE, supportsCompression |-> TRUE],
       [from |-> "jpeg", to |-> "png",  clientSide |-> TRUE, supportsCompression |-> TRUE],
       [from |-> "png",  to |-> "jpg",  clientSide |-> TRUE, supportsCompression |-> TRUE],
       [from |-> "png",  to |-> "jpeg", clientSide |-> TRUE, supportsCompression |-> TRUE],
       [from |-> "jpg",  to |-> "pdf",  clientSide |-> TRUE, supportsCompression |-> TRUE],
       [from |-> "jpeg", to |-> "pdf",  clientSide |-> TRUE, supportsCompression |-> TRUE],
       [from |-> "png",  to |-> "pdf",  clientSide |-> TRUE, supportsCompression |-> TRUE] >>

normalizeType(t) == IF t = "jpeg" THEN "jpg" ELSE t

\* findConversion with || for && between the two conditions
findConversionEither(from, to) ==
    LET normalizedFromType == normalizeType(from)
        normalizedToType   == normalizeType(to)
        matches(c) ==
            \/ (c.from = normalizedFromType
                \/ (normalizedFromType = "jpg" /\ c.from = "jpeg"))
            \/ (c.to = normalizedToType
                \/ (normalizedToType = "jpg" /\ c.to = "jpeg"))
        hits == {i \in 1..Len(supportedConversions) : matches(supportedConversions[i])}
    IN  IF hits = {} THEN None
        ELSE Some(supportedConversions[CHOOSE i \in hits : \A j \in hits : i <= j])

\* this.supportedConversions.find(...): the first matching entry, or undefined
findConversion(from, to) ==
    LET normalizedFromType == normalizeType(from)
        normalizedToType   == normalizeType(to)
        matches(c) ==
            /\ (c.from = normalizedFromType
                \/ (normalizedFromType = "jpg" /\ c.from = "jpeg"))
            /\ (c.to = normalizedToType
                \/ (normalizedToType = "jpg" /\ c.to = "jpeg"))
        hits == {i \in 1..Len(supportedConversions) : matches(supportedConversions[i])}
    IN  IF hits = {} THEN None
        ELSE Some(supportedConversions[CHOOSE i \in hits : \A j \in hits : i <= j])

\* name.replace(/\.[^/.]+$/, ext): the last "." followed by one or more tokens,
\* none of them "." or "/", up to the end of the name, is replaced by ext.
replaceExtension(name, ext) ==
    LET dots == {i \in 1..Len(name) :
                    /\ name[i] = "."
                    /\ i < Len(name)
                    /\ \A j \in (i + 1)..Len(name) : name[j] \notin {".", "/"}}
    IN  IF dots = {} THEN name
        ELSE SubSeq(name, 1, (CHOOSE i \in dots : TRUE) - 1) \o ext

\* the ratio with a growth reported as 0
compressionRatioClamped(originalSize, size) ==
    IF originalSize = 0
    THEN [kind |-> IF size = 0 THEN "NaN" ELSE "-Infinity", num |-> 0, den |-> 1]
    ELSE [kind |-> "number",
          num |-> IF size > originalSize THEN 0 ELSE (originalSize - size) * 100,
          den |-> originalSize]

\* ((originalSize - size) / originalSize) * 100 in IEEE arithmetic
compressionRatio(originalSize, size) ==
    IF originalSize = 0
    THEN [kind |-> IF size = 0 THEN "NaN" ELSE "-Infinity", num |-> 0, den |-> 1]
    ELSE [kind |-> "number", num |-> (originalSize - size) * 100, den |-> originalSize]

---------------------------------------------------------------------------
(* The state of one convertImage invocation *)

IdleCall ==
    [pc |-> "idle", imageItem |-> None, fromType |-> "", toType |-> "",
     compressionSettings |-> None, delegate |-> "none", compressed |-> None,
     addImage |-> None]

Pending == [state |-> "pending"]

Fulfilled(v) == [state |-> "fulfilled", value |-> v]

Rejected(msg) == [state |-> "rejected", reason |-> msg]

\* the invocation as one value: its position, its promise, its encoder calls
CS(c, r, e) == [call |-> c, ret |-> r, enc |-> e]

Item(c) == c.imageItem[1]

Settings(c) == c.compressionSettings[1]

\* successResult with the sizes taken from the delegate's statistics
successResultDelegateSizes(c, result) ==
    LET blob == result.blob
        fileName == IF c.toType = "pdf"
                    THEN replaceExtension(Item(c).name, Ext("pdf"))
                    ELSE replaceExtension(Item(c).name, Ext(c.toType))
    IN  [id |-> Item(c).id,
         originalName |-> Item(c).name,
         convertedName |-> fileName,
         blob |-> blob,
         url |-> "blob:",
         fromType |-> c.fromType,
         toType |-> c.toType,
         success |-> TRUE,
         compressionStats |->
            [originalSize |-> result.stats.originalSize,
             finalSize |-> result.stats.compressedSize,
             compressionRatio |-> compressionRatio(result.stats.originalSize,
                                                   result.stats.compressedSize),
             quality |-> OrDefault(Settings(c).quality, 100)]]

\* convertImage, lines 63-78: the record of a success
successResult(c, result) ==
    LET originalSize == Item(c).file.size
        blob == result.blob
        fileName == IF c.toType = "pdf"
                    THEN replaceExtension(Item(c).name, Ext("pdf"))
                    ELSE replaceExtension(Item(c).name, Ext(c.toType))
    IN  [id |-> Item(c).id,
         originalName |-> Item(c).name,
         convertedName |-> fileName,
         blob |-> blob,
         url |-> "blob:",
         fromType |-> c.fromType,
         toType |-> c.toType,
         success |-> TRUE,
         compressionStats |->
            [originalSize |-> originalSize,
             finalSize |-> blob.size,
             compressionRatio |-> compressionRatio(originalSize, blob.size),
             quality |-> OrDefault(Settings(c).quality, 100)]]

\* failureResult keeping the blob and the name of an attempt
failureResultPartial(c, message) ==
    [id |-> Item(c).id,
     originalName |-> Item(c).name,
     convertedName |-> Item(c).name,
     blob |-> IF c.compressed # None THEN c.compressed[1].blob ELSE [size |-> 0, type |-> ""],
     url |-> "",
     fromType |-> c.fromType,
     toType |-> c.toType,
     success |-> FALSE,
     error |-> message]

\* convertImage, lines 79-91: the record of a failure
failureResult(c, message) ==
    [id |-> Item(c).id,
     originalName |-> Item(c).name,
     convertedName |-> <<>>,
     blob |-> [size |-> 0, type |-> ""],
     url |-> "",
     fromType |-> c.fromType,
     toType |-> c.toType,
     success |-> FALSE,
     error |-> message]

\* a delegate resolved: convertImage returns the success record
resolveCall(cs, result) ==
    CS([cs.call EXCEPT !.pc = "settled"], Fulfilled(successResult(cs.call, result)), cs.enc)

\* a delegate rejected (or convertImage threw inside its try): the catch returns
rejectCall(cs, message) ==
    CS([cs.call EXCEPT !.pc = "settled"], Fulfilled(failureResult(cs.call, message)), cs.enc)

---------------------------------------------------------------------------
(* What the browser may answer.  An exception thrown inside a handler is     *)
(* caught there and rejects the delegate's promise, like a missing canvas    *)
(* context does: ctxOk = FALSE stands for both.                              *)

\* An image load fires load or error; a file without bytes never decodes.
LoadOutcomes(file) == IF file.size = 0 THEN {FALSE} ELSE BOOLEAN

\* canvas.toBlob hands its callback a blob or null; a canvas without pixels
\* always yields null.
BlobOutcomes(width, height, type) ==
    {None} \cup (IF width = 0 \/ height = 0 THEN {}
                 ELSE {Some([size |-> n, type |-> type]) : n \in 1..MaxBlobSize})

\* jsPDF: addImage / output throw, or give a document of some size
PdfOutcomes == {None} \cup {Some([size |-> n, type |-> "application/pdf"]) : n \in 1..MaxBlobSize}

\* one canvas.toBlob / canvas.toDataURL call
EncoderCall(api, type, quality, width, height, filled) ==
    [api |-> api, type |-> type, quality |-> quality,
     width |-> width, height |-> height, filled |-> filled]

---------------------------------------------------------------------------
(* ImageProcessor.convertImage up to its first await *)

convertImage(imageItem, from, to, settings) ==
    LET c0 == [pc |-> "start", imageItem |-> Some(imageItem), fromType |-> from,
               toType |-> to, compressionSettings |-> Some(settings),
               delegate |-> "none", compressed |-> None, addImage |-> None]
        normalizedFromType == normalizeType(from)
        normalizedToType   == normalizeType(to)
        conversion == findConversion(from, to)
    IN  IF conversion = None
        THEN \* line 37: thrown before the try, the promise is rejected
             CS([c0 EXCEPT !.pc = "settled"], Rejected("Conversion is not supported"), <<>>)
        ELSE IF to = "pdf"
        THEN CS([c0 EXCEPT !.pc = "pdf_load", !.delegate = "convertImageToPDF"],
                Pending, <<>>)
        ELSE IF normalizedFromType # normalizedToType \/ settings.enableCompression
        THEN CS([c0 EXCEPT !.pc = "fmt_load", !.delegate = "convertImageFormat"],
                Pending, <<>>)
        ELSE rejectCall(CS(c0, Pending, <<>>), "No conversion or compression requested")

---------------------------------------------------------------------------
(* ImageProcessor.convertImageFormat *)

\* formatQuality handing on settings.quality whether or not compression is on
formatQualityOfSettings(to, settings) == Some(settings.quality)

\* the quality convertImageFormat hands to canvas.toBlob (lines 289-291)
formatQuality(to, settings) ==
    IF settings.enableCompression THEN Some(settings.quality)
    ELSE IF to = "png" THEN None ELSE Some(95)

\* the drawing calls on the canvas of convertImageFormat, in their order
\* (lines 280-286), with the fill for the target 'jpg' only
formatCanvasOpsJpgOnly(to) ==
    IF to = "jpg" THEN <<"fillRect", "drawImage">> ELSE <<"drawImage">>

\* the drawing calls on the canvas of convertImageFormat, in their order
\* (lines 280-286); fillRect covers the whole canvas with #FFFFFF
formatCanvasOps(to) ==
    IF to = "jpg" \/ to = "jpeg" THEN <<"fillRect", "drawImage">> ELSE <<"drawImage">>

\* the image was drawn over a canvas filled with white: a transparent pixel
\* of the image shows white
whiteUnderImage(ops) ==
    \E i, j \in 1..Len(ops) : i < j /\ ops[i] = "fillRect" /\ ops[j] = "drawImage"

\* the drawing calls on the canvas of compressImage, in their order (lines
\* 125-133)
compressCanvasOps(outputFormat) ==
    IF outputFormat = "image/jpeg" THEN <<"fillRect", "drawImage">> ELSE <<"drawImage">>

\* the drawing calls on the canvas of convertImageToPDF (lines 202-204)
pdfCanvasOps == <<"drawImage">>

\* convertImageFormat going on to draw and encode after an error event too
convertImageFormat_onImageAnyway(cs, loaded, ctxOk) ==
    LET c == cs.call
        file == Item(c).file
        s == Settings(c)
        dims == calculateDimensions(file.width, file.height, s.maxWidth, s.maxHeight,
                                    s.maintainAspectRatio)
        outputFormat == IF c.toType = "png" THEN "image/png" ELSE "image/jpeg"
    IN  IF ~ctxOk THEN rejectCall(cs, "Could not get canvas context")
        ELSE CS([c EXCEPT !.pc = "fmt_encode"], cs.ret,
                Append(cs.enc, EncoderCall("toBlob", outputFormat,
                                           formatQuality(c.toType, s),
                                           dims.width, dims.height,
                                           whiteUnderImage(formatCanvasOps(c.toType)))))

\* img.onload / img.onerror of convertImageFormat
convertImageFormat_onImage(cs, loaded, ctxOk) ==
    LET c == cs.call
        file == Item(c).file
        s == Settings(c)
        dims == calculateDimensions(file.width, file.height, s.maxWidth, s.maxHeight,
                                    s.maintainAspectRatio)
        outputFormat == IF c.toType = "png" THEN "image/png" ELSE "image/jpeg"
    IN  IF ~loaded THEN rejectCall(cs, "Failed to load image")
        ELSE IF ~ctxOk THEN rejectCall(cs, "Could not get canvas context")
        ELSE CS([c EXCEPT !.pc = "fmt_encode"], cs.ret,
                Append(cs.enc, EncoderCall("toBlob", outputFormat,
                                           formatQuality(c.toType, s),
                                           dims.width, dims.height,
                                           whiteUnderImage(formatCanvasOps(c.toType)))))

\* the callback of canvas.toBlob in convertImageFormat
convertImageFormat_onBlob(cs, blob) ==
    LET c == cs.call
        file == Item(c).file
        enc == cs.enc[Len(cs.enc)]
    IN  IF blob = None THEN rejectCall(cs, "Failed to create blob")
        ELSE resolveCall(cs,
               [blob |-> blob[1],
                stats |-> [originalSize |-> file.size,
                           compressedSize |-> blob[1].size,
                           compressionRatio |-> compressionRatio(file.size, blob[1].size),
                           quality |-> IF enc.quality = None THEN 100
                                       ELSE OrDefault(enc.quality[1], 100),
                           originalDimensions |-> [width |-> file.width, height |-> file.height],
                           newDimensions |-> [width |-> enc.width, height |-> enc.height]]])

---------------------------------------------------------------------------
(* ImageProcessor.compressImage, as convertImageToPDF calls it *)

\* img.onload / img.onerror of compressImage
compressImage_onImage(cs, loaded, ctxOk) ==
    LET c == cs.call
        file == Item(c).file
        s == Settings(c)
        dims == calculateDimensions(file.width, file.height, s.maxWidth, s.maxHeight,
                                    s.maintainAspectRatio)
        outputFormat == IF file.type = "image/png" THEN "image/png" ELSE "image/jpeg"
    IN  IF ~loaded THEN rejectCall(cs, "Failed to load image")
        ELSE IF ~ctxOk THEN rejectCall(cs, "Could not get canvas context")
        ELSE CS([c EXCEPT !.pc = "cmp_encode"], cs.ret,
                Append(cs.enc, EncoderCall("toBlob", outputFormat, Some(s.quality),
                                           dims.width, dims.height,
                                           whiteUnderImage(compressCanvasOps(outputFormat)))))

\* the callback of canvas.toBlob in compressImage; on a blob, convertImageToPDF
\* goes on to load it into a second image (lines 192-196)
compressImage_onBlob(cs, blob) ==
    LET c == cs.call
        file == Item(c).file
        enc == cs.enc[Len(cs.enc)]
    IN  IF blob = None THEN rejectCall(cs, "Failed to compress image")
        ELSE CS([c EXCEPT !.pc = "cmp_img_load",
                          !.compressed =
                             Some([blob |-> blob[1],
                                   stats |-> [originalSize |-> file.size,
                                              compressedSize |-> blob[1].size,
                                              compressionRatio |->
                                                 compressionRatio(file.size, blob[1].size),
                                              quality |-> enc.quality[1],
                                              originalDimensions |->
                                                 [width |-> file.width, height |-> file.height],
                                              newDimensions |->
                                                 [width |-> enc.width, height |-> enc.height]]])],
                cs.ret, cs.enc)

---------------------------------------------------------------------------
(* ImageProcessor.convertImageToPDF *)

\* the page of new jsPDF(): A4, portrait, in millimetres (jsPDF's defaults)
PdfPageWidth == 210

PdfPageHeight == 297

\* the placement with the raster always fitted to the page's height
pdfPlacementFitHeight(width, height) ==
    LET pdfWidth == Rat(PdfPageWidth, 1)
        pdfHeight == Rat(PdfPageHeight, 1)
        imgAspectRatio == RatNorm(Rat(width, height))
        finalHeight == RatSub(pdfHeight, Rat(20, 1))
        finalWidth == RatMul(finalHeight, imgAspectRatio)
    IN  [x |-> RatNorm(RatDiv(RatSub(pdfWidth, finalWidth), Rat(2, 1))),
         y |-> RatNorm(RatDiv(RatSub(pdfHeight, finalHeight), Rat(2, 1))),
         finalWidth |-> RatNorm(finalWidth),
         finalHeight |-> RatNorm(finalHeight)]

\* lines 207-222: where the raster of width x height goes on the page
pdfPlacement(width, height) ==
    LET pdfWidth == Rat(PdfPageWidth, 1)
        pdfHeight == Rat(PdfPageHeight, 1)
        imgAspectRatio == RatNorm(Rat(width, height))
        pdfAspectRatio == RatDiv(pdfWidth, pdfHeight)
        wide == RatGT(imgAspectRatio, pdfAspectRatio)
        finalWidth == IF wide THEN RatSub(pdfWidth, Rat(20, 1))
                      ELSE RatMul(RatSub(pdfHeight, Rat(20, 1)), imgAspectRatio)
        finalHeight == IF wide THEN RatDiv(RatSub(pdfWidth, Rat(20, 1)), imgAspectRatio)
                       ELSE RatSub(pdfHeight, Rat(20, 1))
    IN  [x |-> RatNorm(RatDiv(RatSub(pdfWidth, finalWidth), Rat(2, 1))),
         y |-> RatNorm(RatDiv(RatSub(pdfHeight, finalHeight), Rat(2, 1))),
         finalWidth |-> RatNorm(finalWidth),
         finalHeight |-> RatNorm(finalHeight)]

\* lines 202-235: draw the processed image, encode it, build the document
assemblePdf(cs, width, height, pdf) ==
    LET c0 == cs.call
        c == [c0 EXCEPT !.addImage = Some(pdfPlacement(width, height))]
        file == Item(c).file
        s == Settings(c)
        quality == OrDefault(s.quality, 95)
        enc == Append(cs.enc, EncoderCall("toDataURL", "image/jpeg", Some(quality),
                                          width, height, whiteUnderImage(pdfCanvasOps)))
        withEnc == CS(c, cs.ret, enc)
    IN  IF pdf = None THEN rejectCall(withEnc, "Failed to assemble document")
        ELSE resolveCall(withEnc,
               [blob |-> pdf[1],
                stats |-> IF c.compressed # None THEN c.compressed[1].stats
                          ELSE [originalSize |-> file.size,
                                compressedSize |-> pdf[1].size,
                                quality |-> quality]])

\* img.onload / img.onerror of convertImageToPDF
convertImageToPDF_onImage(cs, loaded, ctxOk, pdf) ==
    LET c == cs.call
        file == Item(c).file
    IN  IF ~loaded THEN rejectCall(cs, "Failed to load image")
        ELSE IF ~ctxOk THEN rejectCall(cs, "Could not get canvas context")
        ELSE IF Settings(c).enableCompression
        THEN CS([c EXCEPT !.pc = "cmp_load"], cs.ret, cs.enc)
        ELSE assemblePdf(cs, file.width, file.height, pdf)

\* the load or error event of compressedImg: only onload has a handler (line 195)
convertImageToPDF_onCompressedImage(cs, loaded, pdf) ==
    LET enc == cs.enc[Len(cs.enc)]
    IN  IF ~loaded THEN CS([cs.call EXCEPT !.pc = "cmp_img_failed"], cs.ret, cs.enc)
        ELSE assemblePdf(cs, enc.width, enc.height, pdf)

---------------------------------------------------------------------------
(* App.jsx: the component state and handleConvertImages *)

\* the option values of the two selectors of ImageTypeSelector
INPUT_IMAGE_TYPES == {"", "jpg", "png"}

OUTPUT_IMAGE_TYPES == {"", "jpg", "png", "pdf"}

\* isConversionSupported answering yes for any two chosen types
isConversionSupportedAnyPair(from, to) == ~(from = "" \/ to = "")

\* ImageTypeSelector.isConversionSupported
isConversionSupported(from, to) ==
    IF from = "" \/ to = "" \/ from = to
    THEN FALSE
    ELSE LET supportedCombinations ==
                 << <<"jpg", "png">>, <<"jpg", "pdf">>,
                    <<"png", "jpg">>, <<"png", "pdf">> >>
         IN  \E i \in 1..Len(supportedCombinations) :
                 /\ supportedCombinations[i][1] = from
                 /\ supportedCombinations[i][2] = to

\* useState of compressionSettings (App.jsx lines 21-25)
DefaultSettings ==
    [quality |-> 80, maxWidth |-> 0, maxHeight |-> 0,
     maintainAspectRatio |-> TRUE, enableCompression |-> FALSE]

\* settings the compression controls can produce
UiSettings ==
    { DefaultSettings,
      [DefaultSettings EXCEPT !.enableCompression = TRUE, !.maxWidth = 2],
      [DefaultSettings EXCEPT !.enableCompression = TRUE, !.quality = 10,
                              !.maintainAspectRatio = FALSE, !.maxHeight = 2] }

\* the image files a user has at hand for the upload zone: they have bytes,
\* a JPEG or PNG type
UiFiles == {f \in Files : f.size > 0}

\* ImageUploadZone.validateFile: maxSize, validTypes and the two tests
\* 10 * 1024 * 1024
maxSize == 10485760

validTypes == {"image/jpeg", "image/jpg", "image/png"}

\* validateFile without the test of the type
validateFileSizeOnly(file) == ~(file.size > maxSize)

validateFile(file) == ~(file.size > maxSize) /\ file.type \in validTypes

\* files the upload zone has to refuse: one byte too large, not an image type
\* of the list
InvalidFiles ==
    { [name |-> <<"x", ".", "png">>, size |-> maxSize + 1, type |-> "image/png",
       width |-> 1, height |-> 1],
      [name |-> <<"y", ".", "gif">>, size |-> 1, type |-> "image/gif",
       width |-> 1, height |-> 1] }

DropFiles == UiFiles \cup InvalidFiles

\* e.dataTransfer.files / e.target.files: one or two files of a given stock
DropLists(stock) == UNION {[1..n -> stock] : n \in 1..2}

\* pc: idle, await (suspended in the await of convertImage) or done; n, i and
\* published stay after the invocation ended: the number of images it was
\* started on, the iteration it ended in, whether it published its results
IdleBatch ==
    [pc |-> "idle", images |-> <<>>, n |-> 0, i |-> 0, results |-> <<>>, fromType |-> "",
     toType |-> "", settings |-> DefaultSettings, published |-> FALSE]

\* setSelectedImages(prev => prev.map(img => img.id === id ? {...img, status} : img))
setStatus(images, id, status) ==
    [k \in 1..Len(images) |->
        IF images[k].id = id THEN [images[k] EXCEPT !.status = status] ELSE images[k]]

\* canConvert (App.jsx line 100): the Convert button is enabled
canConvert ==
    fromType # "" /\ toType # "" /\ Len(selectedImages) > 0 /\ ~isConverting

\* showCompressionControls (App.jsx lines 101-104)
showCompressionControls ==
    /\ fromType # "" /\ toType # ""
    /\ fromType \in {"jpg", "png"}
    /\ toType \in {"jpg", "png", "pdf"}

\* The loop of handleConvertImages from the top of iteration i, run until it
\* awaits a pending convertImage, publishes, or is left through the catch.
\* b is the invocation (its closure), sel the current selectedImages, cs the
\* latest convertImage invocation.
RECURSIVE iterate(_, _, _, _, _)
RECURSIVE afterAwait(_, _, _, _, _)
\* iterate looping over the selection as it is now, not as it was at the click
iterateOverSelection(b, sel, i, results, cs) ==
    IF i > Len(sel)
    THEN [out |-> "published", sel |-> sel, i |-> i, results |-> results, cs |-> cs]
    ELSE LET imageItem == sel[i]
             sel1 == setStatus(sel, imageItem.id, "converting")
             cs1 == convertImage(imageItem, b.fromType, b.toType, b.settings)
         IN  IF cs1.call.pc = "settled"
             THEN afterAwait(b, sel1, i, results, cs1)
             ELSE [out |-> "await", sel |-> sel1, i |-> i, results |-> results, cs |-> cs1]

iterate(b, sel, i, results, cs) ==
    IF i > Len(b.images)
    THEN [out |-> "published", sel |-> sel, i |-> i, results |-> results, cs |-> cs]
    ELSE LET imageItem == b.images[i]
             sel1 == setStatus(sel, imageItem.id, "converting")
             cs1 == convertImage(imageItem, b.fromType, b.toType, b.settings)
         IN  IF cs1.call.pc = "settled"
             THEN afterAwait(b, sel1, i, results, cs1)
             ELSE [out |-> "await", sel |-> sel1, i |-> i, results |-> results, cs |-> cs1]

\* the await of convertImage returned (lines 80-89) or threw (lines 93-94)
afterAwait(b, sel, i, results, cs) ==
    IF cs.ret.state = "rejected"
    THEN [out |-> "aborted", sel |-> sel, i |-> i, results |-> results, cs |-> cs]
    ELSE LET result == cs.ret.value
             status == IF result.success THEN "completed" ELSE "error"
         IN  iterate(b, setStatus(sel, b.images[i].id, status), i + 1,
                     Append(results, result), cs)

\* the state the App is left in by a run of the loop; an invocation that ended
\* leaves nothing behind but the App state
applyRun(b, r) ==
    /\ selectedImages' = r.sel
    /\ call' = IF r.out = "await" THEN r.cs.call ELSE IdleCall
    /\ ret' = IF r.out = "await" THEN r.cs.ret ELSE Pending
    /\ encoderCalls' = IF r.out = "await" THEN r.cs.enc ELSE <<>>
    /\ isConverting' = (r.out = "await")
    /\ conversionResults' = IF r.out = "published" THEN r.results ELSE conversionResults
    /\ error' = IF r.out = "aborted" THEN r.cs.ret.reason ELSE ""
    /\ batch' = IF r.out = "await"
                THEN [b EXCEPT !.i = r.i, !.results = r.results]
                ELSE [IdleBatch EXCEPT !.pc = "done", !.n = b.n, !.i = r.i,
                                       !.published = (r.out = "published")]

\* an event handler of the running convertImage invocation has run: the
\* awaiting handleConvertImages, if any, resumes when the promise settled
deliver(cs) ==
    IF batch.pc = "await" /\ cs.call.pc = "settled"
    THEN /\ applyRun(batch, afterAwait(batch, selectedImages, batch.i, batch.results, cs))
         /\ UNCHANGED <<fromType, toType, compressionSettings, nextId, batches,
                        dimIn, dimOut, placeVars, uiVars, previewVars>>
    ELSE /\ call' = cs.call
         /\ ret' = cs.ret
         /\ encoderCalls' = cs.enc
         /\ UNCHANGED <<appVars, dimVars, placeVars, uiVars, previewVars>>

---------------------------------------------------------------------------
(* Actions of the App *)

\* CompressionControls is rendered only while showCompressionControls holds
\* (App.jsx lines 119-125). Mounting runs useState(settings) and the
\* debounce effect, which arms its timer; unmounting runs the effect's
\* cleanup, which clears it, and drops the component's state (represented
\* by the value the next mount starts from). atRest: the step includes the
\* 300 ms after which the timer armed by the mount has fired, handing the
\* App the settings it already has.
remount(atRest) ==
    IF ~showCompressionControls /\ showCompressionControls'
    THEN /\ localSettings' = compressionSettings
         /\ debounceTimer' = ~atRest
    ELSE IF showCompressionControls /\ ~showCompressionControls'
    THEN /\ localSettings' = compressionSettings
         /\ debounceTimer' = FALSE
    ELSE UNCHANGED <<localSettings, debounceTimer>>

\* onFromTypeChange = setFromType
fromTypeChange(atRest) ==
    \E t \in INPUT_IMAGE_TYPES :
        /\ fromType' = t
        /\ toType' = toType
        /\ remount(atRest)
        /\ UNCHANGED <<selectedImages, isConverting, conversionResults, error,
                       compressionSettings, nextId, batch, batches, alertShown,
                       callVars, dimVars, placeVars, previewVars>>

\* onToTypeChange = setToType
toTypeChange(atRest) ==
    \E t \in OUTPUT_IMAGE_TYPES :
        /\ toType' = t
        /\ fromType' = fromType
        /\ remount(atRest)
        /\ UNCHANGED <<selectedImages, isConverting, conversionResults, error,
                       compressionSettings, nextId, batch, batches, alertShown,
                       callVars, dimVars, placeVars, previewVars>>

\* a change of a type selector, observed once the controls are at rest
SetFromType == fromTypeChange(TRUE)

SetToType == toTypeChange(TRUE)

\* a change of a type selector, the timer of a mount still pending
SelectFromType == fromTypeChange(FALSE)

SelectToType == toTypeChange(FALSE)

\* App.handleImagesSelected(files)
handleImagesSelected(files) ==
    /\ selectedImages' = selectedImages \o
          [k \in 1..Len(files) |->
              [id |-> nextId + k, file |-> files[k], name |-> files[k].name,
               status |-> "pending"]]
    /\ nextId' = nextId + Len(files)
    /\ error' = ""

\* lines 65-70 and 74-79 of ImageUploadZone: filter the files with
\* validateFile (which alerts for each file it refuses) and hand the valid
\* ones, if any, to onImagesSelected
uploadFiles(files) ==
    LET validFiles == SelectSeq(files, validateFile)
    IN  /\ alertShown' = (Len(validFiles) < Len(files))
        /\ IF Len(validFiles) > 0
           THEN /\ Len(selectedImages) + Len(validFiles) <= MaxImages
                /\ nextId + Len(validFiles) <= MaxIds
                /\ handleImagesSelected(validFiles)
           ELSE UNCHANGED <<selectedImages, nextId, error>>

\* ImageUploadZone.handleDrop; disabled is !fromType (App.jsx line 130)
handleDrop(files) ==
    /\ IF fromType = ""
       THEN UNCHANGED <<selectedImages, nextId, error, alertShown>>
       ELSE uploadFiles(files)
    /\ UNCHANGED <<fromType, toType, isConverting, conversionResults,
                   compressionSettings, batch, batches, localSettings, debounceTimer,
                   callVars, dimVars, placeVars, previewVars>>

\* ImageUploadZone.handleFileSelect; the file input is disabled with the zone
handleFileSelect(files) ==
    /\ fromType # ""
    /\ uploadFiles(files)
    /\ UNCHANGED <<fromType, toType, isConverting, conversionResults,
                   compressionSettings, batch, batches, localSettings, debounceTimer,
                   callVars, dimVars, placeVars, previewVars>>

\* a drop or a selection of image files
ImagesSelected ==
    \/ \E files \in DropLists(UiFiles) : handleDrop(files)
    \/ \E files \in DropLists(UiFiles) : handleFileSelect(files)

\* a drop of any files, refusable ones among them
DropAny == \E files \in DropLists(DropFiles) : handleDrop(files)

\* a selection of any files
FileSelectAny == \E files \in DropLists(DropFiles) : handleFileSelect(files)

\* handleRemoveImage(id); the button of a converting image is disabled
RemoveImage ==
    \E k \in 1..Len(selectedImages) :
        /\ selectedImages[k].status # "converting"
        /\ selectedImages' = SelectSeq(selectedImages,
                                       LAMBDA img : img.id # selectedImages[k].id)
        /\ UNCHANGED <<fromType, toType, isConverting, conversionResults, error,
                       compressionSettings, nextId, batch, batches, callVars, dimVars, placeVars, uiVars, previewVars>>

\* a change in the compression controls observed once they are at rest: the
\* handlers of lines 19-34 set localSettings, and 300 ms later the debounce
\* timer hands them to handleCompressionSettingsChange(settings)
CompressionSettingsChange ==
    /\ showCompressionControls
    /\ ~isConverting
    /\ ~debounceTimer
    /\ \E settings \in UiSettings :
        /\ settings # compressionSettings
        /\ localSettings' = settings
        /\ compressionSettings' = settings
    /\ UNCHANGED <<fromType, toType, selectedImages, isConverting, conversionResults,
                   error, nextId, batch, batches, alertShown, debounceTimer,
                   callVars, dimVars, placeVars, previewVars>>

\* handleQualityChange, handleDimensionChange, handleToggleCompression,
\* handleToggleAspectRatio: setLocalSettings, after which the effect's
\* cleanup clears the pending timer and the effect arms a new one
ControlChange ==
    /\ showCompressionControls
    /\ ~isConverting
    /\ \E settings \in UiSettings :
        /\ settings # localSettings
        /\ localSettings' = settings
    /\ debounceTimer' = TRUE
    /\ UNCHANGED <<appVars, alertShown, callVars, dimVars, placeVars, previewVars>>

\* the debounce timer fires: onSettingsChange(localSettings), that is
\* handleCompressionSettingsChange, which sets the App's compressionSettings
DebounceFire ==
    /\ debounceTimer
    /\ debounceTimer' = FALSE
    /\ compressionSettings' = localSettings
    /\ UNCHANGED <<fromType, toType, selectedImages, isConverting, conversionResults,
                   error, nextId, batch, batches, alertShown, localSettings,
                   callVars, dimVars, placeVars, previewVars>>

\* A click on the Convert button, which is enabled only when canConvert holds
\* (so the guard of lines 51-54 never fires): handleConvertImages up to its
\* first await. Awaits of settled promises resume in microtasks, before any
\* other event, so the loop runs on until convertImage is pending.
ConvertClick ==
    /\ canConvert
    /\ batches < MaxBatches
    /\ batches' = batches + 1
    /\ LET b == [pc |-> "await", images |-> selectedImages, n |-> Len(selectedImages),
                 i |-> 1, results |-> <<>>, fromType |-> fromType, toType |-> toType,
                 settings |-> compressionSettings, published |-> FALSE]
       IN  applyRun(b, iterate(b, selectedImages, 1, <<>>, CS(call, ret, encoderCalls)))
    /\ UNCHANGED <<fromType, toType, compressionSettings, nextId, dimVars, placeVars, uiVars, previewVars>>

---------------------------------------------------------------------------
(* Actions of a convertImage invocation: the browser's events *)

\* the caller invokes convertImage
ConvertImageCall ==
    /\ call.pc = "start"
    /\ deliver(convertImage(Item(call), call.fromType, call.toType, Settings(call)))

FormatImageEvent ==
    /\ call.pc = "fmt_load"
    /\ \E loaded \in LoadOutcomes(Item(call).file), ctxOk \in BOOLEAN :
        deliver(convertImageFormat_onImage(CS(call, ret, encoderCalls), loaded, ctxOk))

FormatBlobCallback ==
    /\ call.pc = "fmt_encode"
    /\ LET enc == encoderCalls[Len(encoderCalls)]
       IN  \E blob \in BlobOutcomes(enc.width, enc.height, enc.type) :
              deliver(convertImageFormat_onBlob(CS(call, ret, encoderCalls), blob))

PdfImageEvent ==
    /\ call.pc = "pdf_load"
    /\ \E loaded \in LoadOutcomes(Item(call).file), ctxOk \in BOOLEAN, pdf \in PdfOutcomes :
        deliver(convertImageToPDF_onImage(CS(call, ret, encoderCalls), loaded, ctxOk, pdf))

CompressImageEvent ==
    /\ call.pc = "cmp_load"
    /\ \E loaded \in LoadOutcomes(Item(call).file), ctxOk \in BOOLEAN :
        deliver(compressImage_onImage(CS(call, ret, encoderCalls), loaded, ctxOk))

CompressBlobCallback ==
    /\ call.pc = "cmp_encode"
    /\ LET enc == encoderCalls[Len(encoderCalls)]
       IN  \E blob \in BlobOutcomes(enc.width, enc.height, enc.type) :
              deliver(compressImage_onBlob(CS(call, ret, encoderCalls), blob))

CompressedImageEvent ==
    /\ call.pc = "cmp_img_load"
    /\ \E loaded \in BOOLEAN, pdf \in PdfOutcomes :
        deliver(convertImageToPDF_onCompressedImage(CS(call, ret, encoderCalls), loaded, pdf))

\* a calculateDimensions call
CalculateDimensions ==
    /\ dimOut = None
    /\ dimOut' = Some(calculateDimensions(dimIn.originalWidth, dimIn.originalHeight,
                                          dimIn.maxWidth, dimIn.maxHeight,
                                          dimIn.maintainAspectRatio))
    /\ UNCHANGED <<appVars, callVars, dimIn, placeVars, uiVars, previewVars>>

\* the placement computation of convertImageToPDF on one raster
PdfPlacement ==
    /\ placeOut = None
    /\ placeOut' = Some(pdfPlacement(placeIn.width, placeIn.height))
    /\ UNCHANGED <<appVars, callVars, dimVars, placeIn, uiVars, previewVars>>

---------------------------------------------------------------------------
(* Specifications *)

AppInit ==
    /\ fromType = ""
    /\ toType = ""
    /\ selectedImages = <<>>
    /\ isConverting = FALSE
    /\ conversionResults = <<>>
    /\ error = ""
    /\ compressionSettings = DefaultSettings
    /\ nextId = 0
    /\ batch = IdleBatch
    /\ batches = 0
    /\ alertShown = FALSE
    /\ localSettings = DefaultSettings
    /\ debounceTimer = FALSE

\* no image item is shown: no preview, no timer, no computation
PreviewIdle ==
    /\ previewProps = [enableCompression |-> FALSE, quality |-> 80]
    /\ previewTimer = None
    /\ previewInflight = {}
    /\ compressionPreview = None
    /\ isLoadingPreview = FALSE

CallIdle ==
    /\ call = IdleCall
    /\ ret = Pending
    /\ encoderCalls = <<>>

NoDimInput ==
    [originalWidth |-> 1, originalHeight |-> 1, maxWidth |-> 0, maxHeight |-> 0,
     maintainAspectRatio |-> TRUE]

DimIdle ==
    /\ dimIn = NoDimInput
    /\ dimOut = Some([width |-> 1, height |-> 1])

PlaceIdle ==
    /\ placeIn = [width |-> 1, height |-> 1]
    /\ placeOut = Some(pdfPlacement(1, 1))

\* The application: the user's events and the browser's
Init == AppInit /\ CallIdle /\ DimIdle /\ PlaceIdle /\ PreviewIdle

Next ==
    \/ SetFromType
    \/ SetToType
    \/ ImagesSelected
    \/ RemoveImage
    \/ CompressionSettingsChange
    \/ ConvertClick
    \/ FormatImageEvent
    \/ FormatBlobCallback
    \/ PdfImageEvent
    \/ CompressImageEvent
    \/ CompressBlobCallback
    \/ CompressedImageEvent

Spec == Init /\ [][Next]_vars

\* One convertImage invocation on any arguments
ProcInit ==
    /\ AppInit
    /\ DimIdle
    /\ PlaceIdle
    /\ PreviewIdle
    /\ \E f \in Files, from \in Formats, to \in Formats, settings \in SettingsSet :
        call = [IdleCall EXCEPT !.pc = "start",
                                !.imageItem = Some([id |-> 1, file |-> f, name |-> f.name,
                                                    status |-> "pending"]),
                                !.fromType = from, !.toType = to,
                                !.compressionSettings = Some(settings)]
    /\ ret = Pending
    /\ encoderCalls = <<>>

ProcNext ==
    \/ ConvertImageCall
    \/ FormatImageEvent
    \/ FormatBlobCallback
    \/ PdfImageEvent
    \/ CompressImageEvent
    \/ CompressBlobCallback
    \/ CompressedImageEvent

ProcSpec == ProcInit /\ [][ProcNext]_vars

\* every requested image load fires load or error, every encode callback fires
ProcLiveSpec == ProcInit /\ [][ProcNext]_vars /\ WF_vars(ProcNext)

\* One calculateDimensions call on any arguments within the bounds, and on the
\* arguments of the documented examples
DimExamples ==
    { [originalWidth |-> 2000, originalHeight |-> 1000, maxWidth |-> 1000, maxHeight |-> 0,
       maintainAspectRatio |-> TRUE],
      [originalWidth |-> 1000, originalHeight |-> 2000, maxWidth |-> 0, maxHeight |-> 1000,
       maintainAspectRatio |-> TRUE],
      [originalWidth |-> 2000, originalHeight |-> 2000, maxWidth |-> 1000, maxHeight |-> 1500,
       maintainAspectRatio |-> TRUE],
      [originalWidth |-> 800, originalHeight |-> 600, maxWidth |-> 0, maxHeight |-> 0,
       maintainAspectRatio |-> TRUE] }

DimInputs ==
    [originalWidth : 1..MaxDim, originalHeight : 1..MaxDim, maxWidth : 0..MaxDim,
     maxHeight : 0..MaxDim, maintainAspectRatio : BOOLEAN] \cup DimExamples

DimInit ==
    /\ AppInit
    /\ CallIdle
    /\ PlaceIdle
    /\ PreviewIdle
    /\ dimIn \in DimInputs
    /\ dimOut = None

DimNext == CalculateDimensions

DimSpec == DimInit /\ [][DimNext]_vars

\* One placement on the page, for any raster within the bounds and for the
\* raster of the documented example
PlaceInputs ==
    [width : 1..MaxRaster, height : 1..MaxRaster] \cup {[width |-> 2000, height |-> 1000]}

PlaceInit ==
    /\ AppInit
    /\ CallIdle
    /\ DimIdle
    /\ PreviewIdle
    /\ placeIn \in PlaceInputs
    /\ placeOut = None

PlaceNext == PdfPlacement

PlaceSpec == PlaceInit /\ [][PlaceNext]_vars

---------------------------------------------------------------------------
(* ImageItemComponent: the compression preview of one listed image *)

\* the compressionSettings.enableCompression / .quality an item can be given
PreviewProps == [enableCompression : BOOLEAN, quality : {10, 50, 80}]

\* the props change in a dependency of the preview effect: the cleanup of the
\* last effect clears its timer (if it armed one), then the effect runs:
\* without compression it resets the preview and returns, otherwise it arms
\* a 500 ms timer for generateCompressionPreview with this render's quality
PreviewPropsChange ==
    \E props \in PreviewProps :
        /\ props # previewProps
        /\ previewProps' = props
        /\ IF ~props.enableCompression
           THEN /\ compressionPreview' = None
                /\ previewTimer' = None
           ELSE /\ previewTimer' = Some(props.quality)
                /\ UNCHANGED compressionPreview
        /\ UNCHANGED <<previewInflight, isLoadingPreview>>
        /\ UNCHANGED <<appVars, callVars, dimVars, placeVars, uiVars>>

\* the timer fires: generateCompressionPreview (the effect's inner function)
\* up to its await
PreviewTimerFire ==
    /\ previewTimer # None
    /\ previewTimer' = None
    /\ isLoadingPreview' = TRUE
    /\ previewInflight' = previewInflight \cup {previewTimer[1]}
    /\ UNCHANGED <<previewProps, compressionPreview>>
    /\ UNCHANGED <<appVars, callVars, dimVars, placeVars, uiVars>>

\* processor.generateCompressionPreview settles, in any order among the
\* computations under way: the preview is stored, or null after a failure
PreviewSettled ==
    \E quality \in previewInflight, ok \in BOOLEAN :
        /\ previewInflight' = previewInflight \ {quality}
        /\ compressionPreview' = IF ok THEN Some([quality |-> quality]) ELSE None
        /\ isLoadingPreview' = FALSE
        /\ UNCHANGED <<previewProps, previewTimer>>
        /\ UNCHANGED <<appVars, callVars, dimVars, placeVars, uiVars>>

PreviewNext ==
    \/ PreviewPropsChange
    \/ PreviewTimerFire
    \/ PreviewSettled

PreviewSpec == Init /\ [][PreviewNext]_vars

\* The compression controls with their debounce timer, the type selectors
\* that mount and unmount them, and the Convert button
SettingsNext ==
    \/ SelectFromType
    \/ SelectToType
    \/ ImagesSelected
    \/ ControlChange
    \/ DebounceFire
    \/ ConvertClick

SettingsSpec == Init /\ [][SettingsNext]_vars

\* Batches under types and settings chosen beforehand: the selection changes
\* while handleConvertImages runs
BatchInit ==
    /\ \E from \in INPUT_IMAGE_TYPES \ {""}, to \in OUTPUT_IMAGE_TYPES \ {""},
          settings \in UiSettings :
            /\ fromType = from
            /\ toType = to
            /\ compressionSettings = settings
            /\ localSettings = settings
    /\ selectedImages = <<>>
    /\ isConverting = FALSE
    /\ conversionResults = <<>>
    /\ error = ""
    /\ nextId = 0
    /\ batch = IdleBatch
    /\ batches = 0
    /\ alertShown = FALSE
    /\ debounceTimer = FALSE
    /\ CallIdle /\ DimIdle /\ PlaceIdle /\ PreviewIdle

BatchNext ==
    \/ ImagesSelected
    \/ RemoveImage
    \/ ConvertClick
    \/ FormatImageEvent
    \/ FormatBlobCallback
    \/ PdfImageEvent
    \/ CompressImageEvent
    \/ CompressBlobCallback
    \/ CompressedImageEvent

BatchSpec == BatchInit /\ [][BatchNext]_vars

\* The upload zone and the list of selected images, with files of any kind
UploadNext ==
    \/ SetFromType
    \/ DropAny
    \/ FileSelectAny
    \/ RemoveImage

UploadSpec == Init /\ [][UploadNext]_vars

---------------------------------------------------------------------------
(* Properties of convertImage (checked under ProcSpec) *)

BitmapFormats == {"jpg", "jpeg", "png"}

\* the canonical name of a format: "jpeg" and "jpg" name one format
Canonical(t) == IF t = "jpeg" THEN "jpg" ELSE t

\* the supported pairs, as canonical names
SupportedPairs ==
    {<<"jpg", "png">>, <<"png", "jpg">>, <<"jpg", "pdf">>, <<"png", "pdf">>}

Called == call.pc \notin {"idle", "start"}

\* C1: a (source, target) pair that is not in the table is answered with a
\* returned outcome record with success = false, not with a rejected promise,
\* and no delegate is invoked.
C1_UnsupportedPairReturnsFailure ==
    (Called /\ findConversion(call.fromType, call.toType) = None)
        => /\ ret.state = "fulfilled"
           /\ ~ret.value.success
           /\ call.delegate = "none"

\* C2: a request with the same bitmap format as source and target and
\* enableCompression = false ends in the failure 'No conversion or compression
\* requested'.
C2_SameFormatWithoutCompressionIsNoOperation ==
    (/\ Called
     /\ call.fromType \in BitmapFormats
     /\ Canonical(call.fromType) = Canonical(call.toType)
     /\ ~Settings(call).enableCompression)
        => /\ ret.state = "fulfilled"
           /\ ~ret.value.success
           /\ ret.value.error = "No conversion or compression requested"

\* C3: a request with the same bitmap format as source and target and
\* enableCompression = true is delegated to convertImageFormat.
C3_SameFormatWithCompressionIsReencoded ==
    (/\ Called
     /\ call.fromType \in BitmapFormats
     /\ Canonical(call.fromType) = Canonical(call.toType)
     /\ Settings(call).enableCompression)
        => /\ call.delegate = "convertImageFormat"
           /\ ret.state # "rejected"

\* C4: the lookup accepts exactly jpg/jpeg -> png, png -> jpg/jpeg,
\* jpg/jpeg -> pdf and png -> pdf; acceptance and the delegate chosen depend
\* only on the canonical names of the two formats, so a pdf source, a
\* same-format pair and an unknown format are all rejected and "jpeg" and
\* "jpg" are interchangeable in either argument.
C4_AcceptedPairsExact ==
    Called =>
        LET pair == <<Canonical(call.fromType), Canonical(call.toType)>>
        IN  /\ (ret.state # "rejected") <=> (pair \in SupportedPairs)
            /\ call.delegate =
                  IF pair \notin SupportedPairs THEN "none"
                  ELSE IF pair[2] = "pdf" THEN "convertImageToPDF"
                  ELSE "convertImageFormat"

\* a call with the synonym "jpeg" as source has been accepted and delegated
C4_Witness ==
    /\ Called
    /\ call.fromType = "jpeg"
    /\ call.toType = "png"
    /\ call.delegate = "convertImageFormat"

\* C6: every outcome record convertImage returns is a complete success (a
\* non-empty converted name, a URL, the encoder's blob in the target's type,
\* no error field) or a complete failure (an error message, an empty blob, an
\* empty URL, an empty converted name, no statistics).
C6_OutcomeIsOneCompleteVariant ==
    ret.state = "fulfilled" =>
        LET v == ret.value
            targetType == IF call.toType = "pdf" THEN "application/pdf"
                          ELSE IF call.toType = "png" THEN "image/png"
                          ELSE "image/jpeg"
        IN  \/ /\ v.success
               /\ v.convertedName # <<>>
               /\ v.url # ""
               /\ v.blob.size > 0
               /\ v.blob.type = targetType
               /\ "error" \notin DOMAIN v
            \/ /\ ~v.success
               /\ "error" \in DOMAIN v
               /\ v.blob.size = 0
               /\ v.url = ""
               /\ v.convertedName = <<>>
               /\ "compressionStats" \notin DOMAIN v

\* both variants are returned: here a document built from a compressed image
C6_Witness ==
    /\ ret.state = "fulfilled"
    /\ ret.value.success
    /\ call.toType = "pdf"
    /\ call.compressed # None

\* C7: every call of convertImage eventually settles, given that every image
\* load fires load or error and every encode callback fires.
C7_EveryCallSettles == <>(call.pc = "settled")

\* C8: every quality handed to canvas.toBlob or canvas.toDataURL lies in
\* [0.1, 1.0].
C8_EncoderQualityInRange ==
    \A k \in 1..Len(encoderCalls) :
        encoderCalls[k].quality # None
            => (10 <= encoderCalls[k].quality[1] /\ encoderCalls[k].quality[1] <= 100)

\* C11, the consequence for conversions: without bounds every canvas that is
\* encoded has the source's dimensions.
C11_ConversionKeepsDimensions ==
    (Called /\ Settings(call).maxWidth = 0 /\ Settings(call).maxHeight = 0)
        => \A k \in 1..Len(encoderCalls) :
              /\ encoderCalls[k].width = Item(call).file.width
              /\ encoderCalls[k].height = Item(call).file.height

Succeeded == ret.state = "fulfilled" /\ ret.value.success

\* C12: in every success outcome that carries statistics, compressionRatio is
\* (originalSize - finalSize) / originalSize * 100, not clamped: when the
\* output is larger than the input the ratio is negative.
C12_RatioIsUnclamped ==
    (Succeeded /\ "compressionStats" \in DOMAIN ret.value) =>
        LET st == ret.value.compressionStats
            ratio == st.compressionRatio
        IN  st.originalSize > 0 =>
              /\ ratio.kind = "number"
              /\ ratio.den > 0
              /\ ratio.num * st.originalSize
                    = (st.originalSize - st.finalSize) * 100 * ratio.den
              /\ (st.finalSize > st.originalSize) => (ratio.num < 0)

\* an output larger than its source has been returned
C12_Witness ==
    /\ Succeeded
    /\ ret.value.compressionStats.finalSize > ret.value.compressionStats.originalSize
    /\ ret.value.compressionStats.originalSize > 0

C14_SizesAreThoseOfTheOutcome ==
    Succeeded =>
        /\ ret.value.compressionStats.finalSize = ret.value.blob.size
        /\ ret.value.compressionStats.originalSize = Item(call).file.size

\* a document built from a compressed image whose size differs from the
\* document's
C14_Witness ==
    /\ Succeeded
    /\ call.toType = "pdf"
    /\ call.compressed # None
    /\ call.compressed[1].blob.size # ret.value.blob.size

\* C15: whenever convertImageFormat encodes for the target jpg or jpeg, the
\* whole canvas was filled with white before the image was drawn on it; for
\* the target png no fill is applied.
C15_WhiteFillForLossyTargetOnly ==
    call.delegate = "convertImageFormat" =>
        \A k \in 1..Len(encoderCalls) :
            /\ encoderCalls[k].filled <=> (call.toType \in {"jpg", "jpeg"})
            /\ (encoderCalls[k].type = "image/png") => ~encoderCalls[k].filled
            /\ (encoderCalls[k].type = "image/jpeg") => encoderCalls[k].filled

\* a PNG source has been drawn and encoded for the target 'jpeg'
C15_Witness ==
    /\ call.delegate = "convertImageFormat"
    /\ call.toType = "jpeg"
    /\ Item(call).file.type = "image/png"
    /\ Len(encoderCalls) = 1
    /\ encoderCalls[1].filled

\* C18: on success the converted name is the source name with its extension
\* replaced by the canonical extension of the target, the same for 'jpg' and
\* 'jpeg', and a source name without an extension gets the extension too.
C18_ConvertedNameHasCanonicalExtension ==
    Succeeded =>
        LET name == ret.value.convertedName
        IN  /\ Len(name) >= 3
            /\ name[Len(name) - 1] = "."
            /\ name[Len(name)] = Canonical(call.toType)

\* C19: convertImageFormat hands settings.quality to the encoder exactly when
\* enableCompression is true; with compression off it hands 0.95 for the
\* target jpg / jpeg and no quality for the target png, whatever
\* settings.quality is.
C19_QualityFollowsEnableCompression ==
    call.delegate = "convertImageFormat" =>
        \A k \in 1..Len(encoderCalls) :
            LET passed == encoderCalls[k].quality
            IN  IF Settings(call).enableCompression
                THEN passed = Some(Settings(call).quality)
                ELSE IF encoderCalls[k].type = "image/jpeg"
                THEN passed = Some(95)
                ELSE encoderCalls[k].type = "image/png" /\ passed = None

\* compression is off, settings.quality is 0.8, and a JPEG was encoded
C19_Witness ==
    /\ call.delegate = "convertImageFormat"
    /\ ~Settings(call).enableCompression
    /\ Settings(call).quality = 80
    /\ Len(encoderCalls) = 1
    /\ encoderCalls[1].type = "image/jpeg"
    /\ encoderCalls[1].quality = Some(95)

\* C20: the quality in the compressionStats of a success outcome is the
\* quality that was handed to the encoder for that conversion; with
\* compression off and settings.quality = 0.8 a conversion to jpg reports 0.95.
C20_ReportedQualityIsEncoderQuality ==
    Succeeded =>
        \A k \in 1..Len(encoderCalls) :
            encoderCalls[k].quality # None
                => ret.value.compressionStats.quality = encoderCalls[k].quality[1]

\* C21: in convertImageToPDF with enableCompression = true the preliminary
\* re-encode always encodes to JPEG, over a white fill and with
\* settings.quality, whatever the format of the source file; with
\* enableCompression = false there is no preliminary re-encode and the raster
\* embedded has the source's own dimensions, whatever maxWidth and maxHeight.
C21_DocumentPreEncodeIsLossy ==
    call.delegate = "convertImageToPDF" =>
        \A k \in 1..Len(encoderCalls) :
            LET e == encoderCalls[k]
            IN  IF Settings(call).enableCompression
                THEN e.api = "toBlob" =>
                        /\ e.type = "image/jpeg"
                        /\ e.filled
                        /\ e.quality = Some(Settings(call).quality)
                ELSE /\ e.api = "toDataURL"
                     /\ e.width = Item(call).file.width
                     /\ e.height = Item(call).file.height

\* C22: the raster embedded in the document is encoded to JPEG at
\* settings.quality when enableCompression is true and at 0.95 when it is
\* false, whatever settings.quality holds.
C22_EmbeddedRasterQuality ==
    call.delegate = "convertImageToPDF" =>
        \A k \in 1..Len(encoderCalls) :
            encoderCalls[k].api = "toDataURL" =>
                /\ encoderCalls[k].type = "image/jpeg"
                /\ encoderCalls[k].quality =
                      IF Settings(call).enableCompression
                      THEN Some(Settings(call).quality)
                      ELSE Some(95)

\* C26: on every document path the image that feeds the JPEG encoding of the
\* embedded raster lies over a white fill: the canvas that is encoded was
\* filled before the draw, or the image drawn on it is a JPEG that was itself
\* encoded over a white fill.
C26_DocumentRasterOverWhite ==
    call.delegate = "convertImageToPDF" =>
        \A k \in 1..Len(encoderCalls) :
            encoderCalls[k].api = "toDataURL" =>
                \/ encoderCalls[k].filled
                \/ \E j \in 1..(k - 1) :
                      /\ encoderCalls[j].type = "image/jpeg"
                      /\ encoderCalls[j].filled

---------------------------------------------------------------------------
(* Properties of handleConvertImages (checked under Spec) *)

\* C5: when a batch of several images has ended, every image it was started
\* on has been passed to convertImage and the published results hold one
\* outcome per image.
C5_BatchPublishesOneOutcomePerImage ==
    (batch.pc = "done" /\ batch.n >= 2)
        => /\ batch.i = batch.n + 1
           /\ batch.published
           /\ Len(conversionResults) = batch.n

---------------------------------------------------------------------------
(* Properties of calculateDimensions (checked under DimSpec) *)

\* C9: for positive original dimensions and positive bounds the result is
\* at least 1 x 1.
C9_DimensionsAtLeastOne ==
    (dimOut # None /\ dimIn.maxWidth > 0 /\ dimIn.maxHeight > 0)
        => (dimOut[1].width >= 1 /\ dimOut[1].height >= 1)

\* r is an integer nearest to num / den
Nearest(r, num, den) ==
    LET d == r * den - num
    IN  2 * (IF d < 0 THEN 0 - d ELSE d) <= den

\* C10: with aspect lock on, the width bound is applied first (width = maxW,
\* height = width / aspect when originalW > maxW), then the height bound on
\* the then-current height (height = maxH, width = height * aspect), and the
\* result is rounded to nearest; the three documented examples come out as
\* 1000x500, 500x1000 and 1000x1000.
C10_WidthBoundThenHeightBound ==
    (dimOut # None /\ dimIn.maintainAspectRatio) =>
        LET oW == dimIn.originalWidth
            oH == dimIn.originalHeight
            mW == dimIn.maxWidth
            mH == dimIn.maxHeight
            out == dimOut[1]
            widthFires == mW > 0 /\ oW > mW
            heightFires == /\ mH > 0
                           /\ IF widthFires THEN mW * oH > mH * oW ELSE oH > mH
        IN  /\ (~widthFires /\ ~heightFires) => (out.width = oW /\ out.height = oH)
            /\ (widthFires /\ ~heightFires)
                  => (out.width = mW /\ Nearest(out.height, mW * oH, oW))
            /\ heightFires => (out.height = mH /\ Nearest(out.width, mH * oW, oH))
            /\ (oW = 2000 /\ oH = 1000 /\ mW = 1000 /\ mH = 0)
                  => out = [width |-> 1000, height |-> 500]
            /\ (oW = 1000 /\ oH = 2000 /\ mW = 0 /\ mH = 1000)
                  => out = [width |-> 500, height |-> 1000]
            /\ (oW = 2000 /\ oH = 2000 /\ mW = 1000 /\ mH = 1500)
                  => out = [width |-> 1000, height |-> 1000]

\* both passes fired: the width bound, then the height bound on the new height
C10_Witness ==
    /\ dimOut # None
    /\ dimIn.maintainAspectRatio
    /\ dimIn.maxWidth > 0
    /\ dimIn.originalWidth > dimIn.maxWidth
    /\ dimIn.maxHeight > 0
    /\ dimIn.maxWidth * dimIn.originalHeight > dimIn.maxHeight * dimIn.originalWidth
    /\ dimOut[1].height = dimIn.maxHeight

\* C11: when neither maxWidth nor maxHeight is given, calculateDimensions
\* returns exactly the original width and height, whether the aspect lock is
\* on or off; calculateDimensions(800, 600, undefined, undefined, true) is
\* 800 x 600.
C11_NoBoundsReturnsOriginal ==
    (dimOut # None /\ dimIn.maxWidth = 0 /\ dimIn.maxHeight = 0)
        => dimOut[1] = [width |-> dimIn.originalWidth, height |-> dimIn.originalHeight]

\* C25: with the aspect lock on, the result fits within every bound that was
\* given and never exceeds the original dimensions, whichever of the two
\* passes fire: the width-then-height order leaves no width overflow after
\* the height pass.
C25_ResultFitsBounds ==
    (dimOut # None /\ dimIn.maintainAspectRatio) =>
        /\ (dimIn.maxWidth > 0) => (dimOut[1].width <= dimIn.maxWidth)
        /\ (dimIn.maxHeight > 0) => (dimOut[1].height <= dimIn.maxHeight)
        /\ dimOut[1].width <= dimIn.originalWidth
        /\ dimOut[1].height <= dimIn.originalHeight

\* the height pass fired after the width pass and made the width smaller
\* than its bound
C25_Witness ==
    /\ dimOut # None
    /\ dimIn.maintainAspectRatio
    /\ dimIn.maxWidth > 0
    /\ dimIn.originalWidth > dimIn.maxWidth
    /\ dimIn.maxHeight > 0
    /\ dimIn.maxWidth * dimIn.originalHeight > dimIn.maxHeight * dimIn.originalWidth
    /\ dimOut[1].width < dimIn.maxWidth
    /\ dimOut[1].width >= 1

\* a call without bounds and with the aspect lock off has returned
C11_Witness ==
    /\ dimOut # None
    /\ dimIn.maxWidth = 0
    /\ dimIn.maxHeight = 0
    /\ ~dimIn.maintainAspectRatio
    /\ dimIn.originalWidth # dimIn.originalHeight
    /\ dimOut[1].width = dimIn.originalWidth

---------------------------------------------------------------------------
(* Properties of the placement on the page (checked under PlaceSpec) *)

RatEq(a, b) == a[1] * b[2] = b[1] * a[2]

RatGE(a, b) == a[1] * b[2] >= b[1] * a[2]

RatAdd(a, b) == <<a[1] * b[2] + b[1] * a[2], a[2] * b[2]>>

\* the margin the placement is to leave on each side
Margin == Rat(10, 1)

\* C16: the placed raster leaves at least 10 page units between itself and
\* each of the four page edges.
C16_MarginOnAllSides ==
    placeOut # None =>
        LET p == placeOut[1]
            W == Rat(PdfPageWidth, 1)
            H == Rat(PdfPageHeight, 1)
        IN  /\ RatGE(p.x, Margin)
            /\ RatGE(p.y, Margin)
            /\ RatGE(RatSub(W, Margin), RatAdd(p.x, p.finalWidth))
            /\ RatGE(RatSub(H, Margin), RatAdd(p.y, p.finalHeight))

\* C17: a raster whose aspect ratio exceeds the page's gets finalW = W - 20
\* and finalH = finalW / imgAspect, any other gets finalH = H - 20 and
\* finalW = finalH * imgAspect; it is placed at x = (W - finalW) / 2,
\* y = (H - finalH) / 2, so the left and right gaps are equal and so are the
\* top and bottom gaps; a raster wider than tall gets finalW = W - 20.
C17_PlacementFitsAndCenters ==
    placeOut # None =>
        LET p == placeOut[1]
            w == placeIn.width
            h == placeIn.height
            W == Rat(PdfPageWidth, 1)
            H == Rat(PdfPageHeight, 1)
            imgAspect == RatNorm(Rat(w, h))
            wider == w * PdfPageHeight > PdfPageWidth * h
            rightGap == RatSub(W, RatAdd(p.x, p.finalWidth))
            bottomGap == RatSub(H, RatAdd(p.y, p.finalHeight))
        IN  /\ wider => /\ RatEq(p.finalWidth, Rat(PdfPageWidth - 20, 1))
                        /\ RatEq(RatMul(p.finalHeight, imgAspect), p.finalWidth)
            /\ ~wider => /\ RatEq(p.finalHeight, Rat(PdfPageHeight - 20, 1))
                         /\ RatEq(p.finalWidth, RatMul(p.finalHeight, imgAspect))
            /\ RatEq(RatAdd(p.x, p.x), RatSub(W, p.finalWidth))
            /\ RatEq(RatAdd(p.y, p.y), RatSub(H, p.finalHeight))
            /\ RatEq(p.x, rightGap)
            /\ RatEq(p.y, bottomGap)
            /\ (w > h) => RatEq(p.finalWidth, Rat(PdfPageWidth - 20, 1))

\* the documented example, a raster of 2000 x 1000, has been placed
C17_Witness ==
    /\ placeOut # None
    /\ placeIn = [width |-> 2000, height |-> 1000]
    /\ RatEq(placeOut[1].x, Rat(10, 1))

---------------------------------------------------------------------------
(* The format selector against the processor (checked under ProcSpec) *)

\* C27: on every pair of values the selectors offer (from jpg or png, to jpg,
\* png or pdf) isConversionSupported says yes exactly when convertImage does
\* not reject the pair as unsupported.
C27_SelectorAgreesWithProcessor ==
    (/\ Called
     /\ call.fromType \in INPUT_IMAGE_TYPES \ {""}
     /\ call.toType \in OUTPUT_IMAGE_TYPES \ {""})
        => (isConversionSupported(call.fromType, call.toType)
              <=> ret # Rejected("Conversion is not supported"))

\* a pair the selectors offer and report as unsupported has been rejected
C27_Witness ==
    /\ Called
    /\ call.fromType = "png" /\ call.toType = "png"
    /\ ~isConversionSupported(call.fromType, call.toType)
    /\ ret = Rejected("Conversion is not supported")

\* the Convert button is enabled while the chosen pair is one the selector
\* reports as unsupported
C27_UnsupportedPairCanBeSubmitted ==
    canConvert /\ ~isConversionSupported(fromType, toType)

---------------------------------------------------------------------------
(* Properties of the compression controls (checked under SettingsSpec) *)

\* C28: the settings a batch hands to convertImage (the App's
\* compressionSettings of the render in which Convert is clicked) are the
\* settings the compression controls show at that moment.
C28_BatchUsesDisplayedSettings ==
    [][batches' # batches => compressionSettings = localSettings]_vars

---------------------------------------------------------------------------
(* Properties of the compression preview (checked under PreviewSpec) *)

\* C29: a preview is only ever stored for the most recent request, that is
\* while compression is on and for the quality the item has now; a
\* computation started for an earlier quality, or before compression was
\* switched off, stores nothing when it completes late.
C29_PreviewIsOfLatestRequest ==
    [][(compressionPreview' # compressionPreview /\ compressionPreview' # None)
          => /\ previewProps.enableCompression
             /\ compressionPreview'[1].quality = previewProps.quality]_vars

---------------------------------------------------------------------------
(* Properties of a batch against a changing selection (checked under BatchSpec) *)

Converting == {k \in 1..Len(selectedImages) : selectedImages[k].status = "converting"}

\* the identifiers of the images of a sequence of images or of outcomes
Ids(seq) == [k \in 1..Len(seq) |-> seq[k].id]

---------------------------------------------------------------------------
(* Properties of the per-image status (checked under Spec) *)

\* C23: once the batch has ended (isConverting is false again) no selected
\* image is left with the status 'converting', which would keep its remove
\* button disabled for good.
C23_NoImageLeftConverting ==
    ~isConverting =>
        \A k \in 1..Len(selectedImages) : selectedImages[k].status # "converting"

---------------------------------------------------------------------------
(* Properties of the upload zone (checked under UploadSpec) *)

\* C24: after any drops and selections every selected image has a size of at
\* most 10 MB and one of the types image/jpeg, image/jpg, image/png; a step
\* that does not shorten the list appends to it (only such files, by the first
\* conjunct), as many images as identifiers are consumed (none when no file
\* of the drop is valid), and appends nothing while the zone is disabled.
C24_OnlyValidFilesSelected ==
    /\ [](\A k \in 1..Len(selectedImages) :
            /\ selectedImages[k].file.size <= 10485760
            /\ selectedImages[k].file.type \in {"image/jpeg", "image/jpg", "image/png"})
    /\ [][Len(selectedImages') >= Len(selectedImages)
            => /\ SubSeq(selectedImages', 1, Len(selectedImages)) = selectedImages
               /\ Len(selectedImages') - Len(selectedImages) = nextId' - nextId
               /\ (fromType = "") => (selectedImages' = selectedImages)]_vars

\* one image is selected, and the last drop or selection had a file refused
C24_Witness ==
    /\ alertShown
    /\ Len(selectedImages) = 1
    /\ nextId = 1

====
